---- MODULE Spec2Model ----
(***************************************************************************)
(* A model of safaribooks.py: the chapter-manifest retrieval, the          *)
(* sequential chapter phase, link_replace, the batched asset download, the *)
(* navigation flattening, the assembly of content.opf and toc.ncx, and the *)
(* run of __init__ as a whole with its fatal exits.                        *)
(*                                                                         *)
(* A string is the sequence of its characters; a URL of a stylesheet is    *)
(* the sequence of its parts (scheme, "//", rest).                         *)
(***************************************************************************)
EXTENDS Integers, Sequences, FiniteSets, TLC

VARIABLES
    pages,           \* the service's answers to chapter/, chapter/?page=1, ...
    mstate,          \* get_book_chapters: "call", "returned" or "exit"
    page_requests,   \* number of manifest pages requested
    book_chapters,   \* self.book_chapters
    toc,             \* the service's answer to toc/: a list of nested nodes
    tstate,          \* parse_toc: "call" or "returned"
    navmap,          \* the navPoint elements emitted, as open and close events
    toc_count,       \* the second value parse_toc returns
    max_depth,       \* the third value parse_toc returns
    pc,              \* where the run is: "get", "collect_css", ..., "done", "exit"
    chapters_queue,  \* self.chapters_queue
    oebps,           \* the chapter files in OEBPS: a set of file names
    page_links,      \* file written in this run -> the stylesheet links in it
    fetched,         \* the chapter documents requested, in order
    css,             \* self.css
    images,          \* self.images
    book_ad_info,    \* display.book_ad_info, as 0 or 1 (True == 1 in Python)
    book_notices,    \* the 'File already exists' notices of the chapter phase
    state_status,    \* display.state_status
    in_error,        \* display.in_error
    book_chapters0,  \* history: self.book_chapters when the chapter phase began
    oebps0,          \* history: the chapter files when the run began
    service,         \* chapter file name -> the document the service answers with
    dirs,            \* kind -> whether OEBPS/Styles, OEBPS/Images exists
    files,           \* kind -> the names of the files in that directory
    written,         \* kind -> the files opened for writing in this run
    ad_info,         \* kind -> display.css_ad_info, display.images_ad_info
    notices,         \* kind -> the 'File already exists' advisories given
    error_log,       \* the asset URLs display.error was called for
    batch_lo,        \* _start_multiprocessing: first position of the batch at work
    wst,             \* position in the URL list -> where its worker is
    wp,              \* position in the URL list -> the worker's local progress
    qsize,           \* done_queue.qsize()
    unreachable,     \* the asset URLs the service gives no response for
    cover,           \* self.cover
    cover_id,        \* content.opf: the content of <meta name="cover">
    manifest,        \* content.opf: the items of <manifest>, in order
    spine,           \* content.opf: the idrefs of <spine>, in order
    cover_url,       \* content.opf: the href of the cover <reference>
    link_arg,        \* link_replace: the argument of the last call
    link_ret,        \* link_replace: what the last call returned
    link_calls,      \* the calls of link_replace made
    docs,            \* the package documents written: a set of file names
    log_deleted,     \* whether info.log was removed
    exit_status,     \* the status of sys.exit, -1 while the run goes on
    toc_reply,       \* what the service answers to the toc/ request
    args_log,        \* args.log: keep the log
    docs0,           \* the names of the package documents there when the run began
    failed0          \* the asset URLs whose request failed in an earlier run

manifestVars == <<pages, mstate, page_requests>>
tocVars == <<toc, tstate, navmap, toc_count, max_depth>>

chapterVars == <<chapters_queue, oebps, page_links, fetched, book_ad_info,
                 book_notices, book_chapters0, oebps0, service>>
displayVars == <<state_status, in_error>>
assetVars == <<dirs, files, written, ad_info, notices, error_log>>
poolVars == <<batch_lo, wst, wp, qsize, unreachable>>
opfVars == <<cover, cover_id, manifest, spine, cover_url>>
linkVars == <<link_arg, link_ret, link_calls>>
epubVars == <<docs, log_deleted, exit_status, toc_reply, args_log, docs0, failed0>>

vars == <<pages, mstate, page_requests, book_chapters,
          toc, tstate, navmap, toc_count, max_depth,
          pc, chapters_queue, oebps, page_links, fetched, css, images,
          book_ad_info, book_notices, state_status, in_error,
          book_chapters0, oebps0, service,
          dirs, files, written, ad_info, notices, error_log,
          batch_lo, wst, wp, qsize, unreachable,
          cover, cover_id, manifest, spine, cover_url,
          link_arg, link_ret, link_calls,
          docs, log_deleted, exit_status, toc_reply, args_log, docs0, failed0>>

----------------------------------------------------------------------------
(* Bounds *)
MaxPages == 2
MaxPageLen == 2
MaxTocNodes == 4
MaxTocDepth == 2
MaxChapters == 2
MaxUrls == 6

\* The size of a batch of _start_multiprocessing
BatchSize == 5

\* The status Display.exit ends the process with
ExitCode == 128

----------------------------------------------------------------------------
(* Sequences and strings *)

SeqUpTo(S, n) == UNION {[1..k -> S] : k \in 0..n}

Range(s) == {s[i] : i \in 1..Len(s)}

\* s[i:] of Python, i counted from 1 here
Drop(s, n) == SubSeq(s, n + 1, Len(s))

\* list.index(x): position of the first element equal to x (0 when absent,
\* where Python raises ValueError)
IndexOf(s, x) ==
    IF \E i \in 1..Len(s) : s[i] = x
    THEN CHOOSE i \in 1..Len(s) : s[i] = x /\ \A j \in 1..(i - 1) : s[j] # x
    ELSE 0

\* del s[i]
DelAt(s, i) == SubSeq(s, 1, i - 1) \o SubSeq(s, i + 1, Len(s))

\* sub in s  (str.__contains__)
StartsAt(s, sub, i) ==
    /\ i + Len(sub) - 1 <= Len(s)
    /\ \A k \in 1..Len(sub) : s[i + k - 1] = sub[k]

Contains(s, sub) == \E i \in 1..(Len(s) + 1) : StartsAt(s, sub, i)

\* s.replace(old, new): every non-overlapping occurrence, left to right
RECURSIVE Replace(_, _, _)
Replace(s, old, new) ==
    IF s = <<>> THEN <<>>
    ELSE IF StartsAt(s, old, 1)
         THEN new \o Replace(Drop(s, Len(old)), old, new)
         ELSE <<Head(s)>> \o Replace(Tail(s), old, new)

DOT_HTML == <<".", "h", "t", "m", "l">>
DOT_XHTML == <<".", "x", "h", "t", "m", "l">>
COVER_DOT == <<"c", "o", "v", "e", "r", ".">>

----------------------------------------------------------------------------
(* The chapter manifest: get_book_chapters *)

F_cover == <<"c", "o", "v", "e", "r", ".", "h", "t", "m", "l">>
F_ch1 == <<"a", "b", ".", "h", "t", "m", "l">>
F_ch2 == <<"a", ".", "b", ".", "h", "t", "m", "l">>
F_discover == <<"d", "i", "s", "c", "o", "v", "e", "r", ".", "h", "t", "m", "l">>

ChapterRecords ==
    { [filename |-> F_cover, title |-> "Cover"],
      [filename |-> F_ch1, title |-> "One"],
      [filename |-> F_ch2, title |-> "Two"],
      [filename |-> F_discover, title |-> "Three"] }

\* What the service may answer to one page request: no answer at all
\* (requests_provider returns 0), a JSON value that is no object, an object
\* of one key, the object of no key, an object of several keys without
\* "results", or a page of results.
BadResponses ==
    { [kind |-> "unreachable"], [kind |-> "notdict"], [kind |-> "onekey"],
      [kind |-> "nokeys"], [kind |-> "noresults"] }

\* A page of results; its "next" is a URL exactly when another page follows
\* it in the chain (HasNext).
PageResponses ==
    { [kind |-> "page", results |-> r] : r \in SeqUpTo(ChapterRecords, MaxPageLen) }

HasNext(ps, page) == page + 1 < Len(ps)

IsCover(c) == Contains(c.filename, COVER_DOT)

\* lines 421-426: the page's slice
RECURSIVE RemoveEach(_, _)
RemoveEach(results, cs) ==
    IF cs = <<>> THEN results
    ELSE RemoveEach(DelAt(results, IndexOf(results, Head(cs))), Tail(cs))

\* a slice left in the service's order
PageSlice_ApiOrder(results) == results

PageSlice(results) ==
    LET result == SelectSeq(results, IsCover)
    IN  result \o RemoveEach(results, result)

\* get_book_chapters with a bad page taken for the end of the list
RECURSIVE get_book_chapters_BadPageEndsList(_, _)
get_book_chapters_BadPageEndsList(ps, page) ==
    LET response == ps[page + 1]
    IN  IF response.kind # "page"
        THEN [exit |-> FALSE, result |-> <<>>, requests |-> 1]
        ELSE IF HasNext(ps, page)
             THEN LET rest == get_book_chapters_BadPageEndsList(ps, page + 1)
                  IN  [exit |-> FALSE,
                       result |-> PageSlice(response.results) \o rest.result,
                       requests |-> 1 + rest.requests]
             ELSE [exit |-> FALSE, result |-> PageSlice(response.results),
                   requests |-> 1]

\* get_book_chapters(page): [exit |-> TRUE] when Display.exit is called,
\* else the returned list with the number of pages requested.
RECURSIVE get_book_chapters(_, _)
get_book_chapters(ps, page) ==
    LET response == ps[page + 1]
    IN  IF response.kind = "unreachable"
        THEN [exit |-> TRUE, result |-> <<>>, requests |-> 1]
        ELSE IF response.kind \in {"notdict", "onekey"}
        THEN [exit |-> TRUE, result |-> <<>>, requests |-> 1]
        ELSE IF response.kind \in {"nokeys", "noresults"} \/ Len(response.results) = 0
        THEN [exit |-> TRUE, result |-> <<>>, requests |-> 1]
        ELSE IF HasNext(ps, page)
             THEN LET rest == get_book_chapters(ps, page + 1)
                  IN  [exit |-> rest.exit,
                       result |-> IF rest.exit THEN <<>>
                                  ELSE PageSlice(response.results) \o rest.result,
                       requests |-> 1 + rest.requests]
             ELSE [exit |-> FALSE, result |-> PageSlice(response.results),
                   requests |-> 1]

\* The finite chains of pages
PageChains == UNION { [1..n -> BadResponses \cup PageResponses] : n \in 1..MaxPages }

Kinds == {"css", "images"}

\* Display.error in the place of Display.exit: no sys.exit
DisplayExit_ErrorOnly ==
    /\ in_error' = TRUE
    /\ UNCHANGED exit_status

\* Display.exit (lines 70-79): error() sets in_error, then sys.exit(128)
DisplayExit ==
    /\ in_error' = TRUE
    /\ exit_status' = ExitCode

EpubIdle ==
    /\ docs = {}
    /\ log_deleted = FALSE
    /\ exit_status = -1
    /\ toc_reply = "none"
    /\ args_log = FALSE
    /\ docs0 = {}
    /\ failed0 = {}

LinkIdle ==
    /\ link_arg = <<>>
    /\ link_ret = <<>>
    /\ link_calls = 0

OpfIdle ==
    /\ cover = <<>>
    /\ cover_id = <<>>
    /\ manifest = <<>>
    /\ spine = <<>>
    /\ cover_url = <<>>

AssetsIdle ==
    /\ dirs = [k \in Kinds |-> FALSE]
    /\ files = [k \in Kinds |-> {}]
    /\ written = [k \in Kinds |-> {}]
    /\ ad_info = [k \in Kinds |-> 0]
    /\ notices = [k \in Kinds |-> 0]
    /\ error_log = {}
    /\ batch_lo = 0
    /\ wst = <<>>
    /\ wp = <<>>
    /\ qsize = 0
    /\ unreachable = {}
    /\ OpfIdle
    /\ LinkIdle
    /\ EpubIdle

RunIdle ==
    /\ pc = "idle"
    /\ chapters_queue = <<>>
    /\ oebps = {}
    /\ page_links = <<>>
    /\ fetched = <<>>
    /\ css = <<>>
    /\ images = <<>>
    /\ book_ad_info = 0
    /\ book_notices = 0
    /\ state_status = 0
    /\ in_error = FALSE
    /\ book_chapters0 = <<>>
    /\ oebps0 = {}
    /\ service = <<>>
    /\ AssetsIdle

TocIdle ==
    /\ toc = <<>>
    /\ tstate = "idle"
    /\ navmap = <<>>
    /\ toc_count = 0
    /\ max_depth = 0

InitManifest ==
    /\ pages \in PageChains
    /\ mstate = "call"
    /\ page_requests = 0
    /\ book_chapters = <<>>
    /\ TocIdle
    /\ RunIdle

GetBookChaptersReturn ==
    /\ mstate = "call"
    /\ LET r == get_book_chapters(pages, 0)
       IN  /\ ~r.exit
           /\ mstate' = "returned"
           /\ book_chapters' = r.result
           /\ page_requests' = r.requests
    /\ UNCHANGED <<pages, tocVars, pc, css, images, chapterVars, displayVars>>
    /\ UNCHANGED <<assetVars, poolVars, opfVars, linkVars, epubVars>>

GetBookChaptersExit ==
    /\ mstate = "call"
    /\ LET r == get_book_chapters(pages, 0)
       IN  /\ r.exit
           /\ mstate' = "exit"
           /\ page_requests' = r.requests
    /\ DisplayExit
    /\ UNCHANGED <<pages, book_chapters, tocVars, pc, css, images, chapterVars, state_status>>
    /\ UNCHANGED <<assetVars, poolVars, opfVars, linkVars>>
    /\ UNCHANGED <<docs, log_deleted, toc_reply, args_log, docs0, failed0>>

NextManifest == GetBookChaptersReturn \/ GetBookChaptersExit

SpecManifest == InitManifest /\ [][NextManifest]_vars

\* The pages' results, in page order
RECURSIVE ConcatSlices(_, _)
ConcatSlices(ps, k) ==
    IF k > Len(ps) THEN <<>>
    ELSE SelectSeq(ps[k].results, IsCover)
         \o SelectSeq(ps[k].results, LAMBDA c : ~IsCover(c))
         \o ConcatSlices(ps, k + 1)

Count(s, x) == Cardinality({i \in 1..Len(s) : s[i] = x})

RECURSIVE CountInPages(_, _, _)
CountInPages(ps, k, x) ==
    IF k > Len(ps) THEN 0
    ELSE Count(ps[k].results, x) + CountInPages(ps, k + 1, x)

----------------------------------------------------------------------------
(* The navigation tree: parse_toc *)

ManifestIdle ==
    /\ pages = <<>>
    /\ mstate = "idle"
    /\ page_requests = 0

\* The trees of the service, built from a parent array: node i hangs under
\* parent[i] (0: top level), the children of a node are in increasing i.  The
\* node's id is i; its depth attribute is whatever the service says.
SetToSeq(S) ==
    LET n == Cardinality(S)
        nth[k \in 1..n] == CHOOSE x \in S : Cardinality({y \in S : y < x}) = k - 1
    IN  [k \in 1..n |-> nth[k]]

RECURSIVE BuildForest(_, _, _, _)
BuildForest(n, parent, depth, p) ==
    LET kids == SetToSeq({i \in 1..n : parent[i] = p})
    IN  [k \in 1..Len(kids) |->
            [id |-> kids[k], depth |-> depth[kids[k]],
             children |-> BuildForest(n, parent, depth, kids[k])]]

TocTrees ==
    UNION { { BuildForest(n, parent, depth, 0) :
                parent \in {f \in [1..n -> 0..(n - 1)] : \A i \in 1..n : f[i] < i},
                depth \in [1..n -> 1..MaxTocDepth] } :
            n \in 0..MaxTocNodes }

OpenEv(cc, c) == [tag |-> "open", id |-> cc.id, playOrder |-> c]
CloseEv(cc) == [tag |-> "close", id |-> cc.id, playOrder |-> 0]

\* parse_toc with the counter of a subtree dropped on return
RECURSIVE parse_toc_CounterNotThreaded(_, _, _)
parse_toc_CounterNotThreaded(l, c, mx) ==
    IF l = <<>> THEN [r |-> <<>>, c |-> c, mx |-> mx]
    ELSE LET cc == Head(l)
             c1 == c + 1
             mx1 == IF cc.depth > mx THEN cc.depth ELSE mx
             sub == IF cc.children # <<>>
                    THEN parse_toc_CounterNotThreaded(cc.children, c1, mx1)
                    ELSE [r |-> <<>>, c |-> c1, mx |-> mx1]
             rest == parse_toc_CounterNotThreaded(Tail(l), c1, sub.mx)
         IN  [r |-> <<OpenEv(cc, c1)>> \o sub.r \o <<CloseEv(cc)>> \o rest.r,
              c |-> rest.c, mx |-> rest.mx]

\* parse_toc(l, c, mx): the loop over l, one iteration per node
RECURSIVE parse_toc(_, _, _)
parse_toc(l, c, mx) ==
    IF l = <<>> THEN [r |-> <<>>, c |-> c, mx |-> mx]
    ELSE LET cc == Head(l)
             c1 == c + 1
             mx1 == IF cc.depth > mx THEN cc.depth ELSE mx
             sub == IF cc.children # <<>>
                    THEN parse_toc(cc.children, c1, mx1)
                    ELSE [r |-> <<>>, c |-> c1, mx |-> mx1]
             rest == parse_toc(Tail(l), sub.c, sub.mx)
         IN  [r |-> <<OpenEv(cc, c1)>> \o sub.r \o <<CloseEv(cc)>> \o rest.r,
              c |-> rest.c, mx |-> rest.mx]

InitToc ==
    /\ toc \in TocTrees
    /\ tstate = "call"
    /\ navmap = <<>>
    /\ toc_count = 0
    /\ max_depth = 0
    /\ ManifestIdle
    /\ book_chapters = <<>>
    /\ RunIdle

ParseToc ==
    /\ tstate = "call"
    /\ LET res == parse_toc(toc, 0, 0)
       IN  /\ navmap' = res.r
           /\ toc_count' = res.c
           /\ max_depth' = res.mx
    /\ tstate' = "returned"
    /\ UNCHANGED <<toc, manifestVars, book_chapters, pc, css, images, chapterVars, displayVars>>
    /\ UNCHANGED <<assetVars, poolVars, opfVars, linkVars, epubVars>>

NextToc == ParseToc

SpecToc == InitToc /\ [][NextToc]_vars

\* The nodes of a forest, and the nodes below a node
RECURSIVE NodesOf(_)
NodesOf(l) ==
    UNION { {l[k]} \cup NodesOf(l[k].children) : k \in 1..Len(l) }

\* The child lists of a forest: the top level and every node's children
ChildLists(l) == {l} \cup {n.children : n \in NodesOf(l)}

\* Pre-order: a node, then its subtree, then its next sibling
RECURSIVE Preorder(_)
Preorder(l) ==
    IF l = <<>> THEN <<>>
    ELSE <<Head(l).id>> \o Preorder(Head(l).children) \o Preorder(Tail(l))

PosOf(tag, id) == CHOOSE i \in 1..Len(navmap) : navmap[i].tag = tag /\ navmap[i].id = id

Opens == SelectSeq(navmap, LAMBDA e : e.tag = "open")

MaxOf(S) == IF S = {} THEN 0 ELSE CHOOSE x \in S : \A y \in S : y <= x

\* C8: parse_toc emits the nodes in pre-order, each node's element closed
\* after its descendants and before its next sibling opens, with playOrder
\* 1..N in emission order; it returns N and the largest depth attribute (0
\* for the empty tree).
C8_TocPreorder ==
    tstate = "returned" =>
        LET nodes == NodesOf(toc)
            N == Cardinality(nodes)
        IN  /\ Len(navmap) = 2 * N
            /\ [k \in 1..Len(Opens) |-> Opens[k].id] = Preorder(toc)
            /\ \A k \in 1..Len(Opens) : Opens[k].playOrder = k
            /\ \A n \in nodes :
                 /\ PosOf("open", n.id) < PosOf("close", n.id)
                 /\ \A d \in NodesOf(n.children) :
                      /\ PosOf("open", n.id) < PosOf("open", d.id)
                      /\ PosOf("close", d.id) < PosOf("close", n.id)
            /\ \A cl \in ChildLists(toc) : \A k \in 1..(Len(cl) - 1) :
                 PosOf("close", cl[k].id) < PosOf("open", cl[k + 1].id)
            /\ toc_count = N
            /\ max_depth = MaxOf({n.depth : n \in nodes})

\* the tree of the spec's example, with a third level: a node with a child
\* that has a child, followed by a sibling
C8_Witness ==
    /\ tstate = "returned"
    /\ Len(toc) = 2
    /\ Len(toc[1].children) = 1
    /\ Len(toc[1].children[1].children) = 1
    /\ toc[1].depth = 1
    /\ toc[1].children[1].depth = 2
    /\ toc_count = 4
    /\ max_depth = 2

----------------------------------------------------------------------------
(* The chapter phase: get, get_html, parse_html, link_replace,             *)
(* save_page_html                                                          *)

\* s.split(sep) for a separator of one character
RECURSIVE Split(_, _)
Split(s, sep) ==
    IF \E i \in 1..Len(s) : s[i] = sep
    THEN LET i == CHOOSE k \in 1..Len(s) : s[k] = sep /\ \A j \in 1..(k - 1) : s[j] # sep
         IN  <<SubSeq(s, 1, i - 1)>> \o Split(Drop(s, i), sep)
    ELSE <<s>>

\* s[-n:]
LastN(s, n) == IF Len(s) <= n THEN s ELSE SubSeq(s, Len(s) - n + 1, Len(s))

Last(s) == s[Len(s)]

L_cover == <<"/", "c", "o", "v", "e", "r", "s", "/", "x", ".", "p", "n", "g">>
L_jpg == <<"/", "a", "/", "y", ".", "j", "p", "g">>
L_page == <<"c", "h", "2", ".", "h", "t", "m", "l">>
S_cover == <<"c", "o", "v", "e", "r">>
S_images == <<"i", "m", "a", "g", "e", "s">>
S_graphics == <<"g", "r", "a", "p", "h", "i", "c", "s">>
S_Images_slash == <<"I", "m", "a", "g", "e", "s", "/">>
ImageExtensions == { <<"j", "p", "g">>, <<"j", "p", "e", "g">>, <<"p", "n", "g">> }

\* link_replace(link): the rewritten link, and whether the link is appended
\* to self.images
IsImageLink(link) ==
    /\ link[1] = "/"
    /\ \/ Contains(link, S_cover)
       \/ Contains(link, S_images)
       \/ Contains(link, S_graphics)
       \/ LastN(link, 3) \in ImageExtensions

link_replace(link) ==
    IF IsImageLink(link)
    THEN S_Images_slash \o Last(Split(link, "/"))
    ELSE IF link[1] \notin {"/", "h"}
         THEN Replace(link, DOT_HTML, DOT_XHTML)
         ELSE link

\* book_content.rewrite_links(self.link_replace): self.images afterwards
ImagesAfterRewrite_Prepended(imgs, links) == SelectSeq(links, IsImageLink) \o imgs

RECURSIVE ImagesAfterRewrite(_, _)
ImagesAfterRewrite(imgs, links) ==
    IF links = <<>> THEN imgs
    ELSE ImagesAfterRewrite(IF IsImageLink(Head(links)) THEN Append(imgs, Head(links)) ELSE imgs,
                            Tail(links))

\* self.base_url (book_info["web_url"]) and the hrefs of <link rel=stylesheet>
WEB_URL == <<"https:", "//", "www.safaribooksonline.com/library/view/b/1/">>
H_rel == <<"s1.css">>
H_proto == <<"//", "cdn.example/s2.css">>
H_abs == <<"https:", "//", "cdn.example/s2.css">>

\* urljoin(base, ref) for these shapes of ref
urljoin(base, ref) ==
    IF ref[1] = "https:" THEN ref
    ELSE IF ref[1] = "//" THEN <<base[1]>> \o ref
    ELSE base \o ref

\* lines 480-481
css_url(href) ==
    IF href[1] = "//" THEN urljoin(<<"https:">>, href) ELSE urljoin(WEB_URL, href)

\* The number put in the link of a stylesheet: lines 487-489, the count of
\* the <link> elements of this page so far
StyleNumber(cssList, url, stylesheet_count) == stylesheet_count

\* lines 478-489: the loop over the page's stylesheet links; st is
\* [css, count, links]
RECURSIVE StylesheetLoop(_, _)
StylesheetLoop(st, hrefs) ==
    IF hrefs = <<>> THEN st
    ELSE LET url == css_url(Head(hrefs))
             css1 == IF \E i \in 1..Len(st.css) : st.css[i] = url
                     THEN st.css ELSE Append(st.css, url)
             count1 == st.count + 1
         IN  StylesheetLoop([css |-> css1, count |-> count1,
                             links |-> Append(st.links,
                                              [url |-> url, n |-> StyleNumber(css1, url, count1)])],
                            Tail(hrefs))

\* The documents the service may answer with to a chapter request
ChapterDocs ==
    { [kind |-> "page", stylesheets |-> <<>>, links |-> <<>>],
      [kind |-> "page", stylesheets |-> <<H_rel, H_proto>>, links |-> <<L_cover>>],
      [kind |-> "page", stylesheets |-> <<H_proto>>, links |-> <<L_page, L_cover>>],
      [kind |-> "page", stylesheets |-> <<H_abs, H_rel>>, links |-> <<L_jpg>>] }

XhtmlName(filename) == Replace(filename, DOT_HTML, DOT_XHTML)

\* The file save_page_html writes (line 537)
SavedFile_NotNormalized(filename) == filename

SavedFile(filename) == XhtmlName(filename)

\* The file get looks for before it fetches a chapter (line 550)
TargetFile_NotNormalized(filename) == filename

TargetFile(filename) == XhtmlName(filename)

\* Display.state: int(done * 100 / origin)
Progress(origin, done) == (done * 100) \div origin

\* The chapter files after Display.exit in get_html or parse_html: line 562
\* evaluates both before it calls save_page_html, so nothing is opened
ChapterFilesOnExit_FileCreated(disk, file) == disk \cup {file}

ChapterFilesOnExit(disk, file) == disk

\* The file names of a list of chapter records
Filenames(chs) == {chs[i].filename : i \in 1..Len(chs)}

ChapterLists == UNION { [1..n -> ChapterRecords] : n \in 1..MaxChapters }

InitChapters ==
    /\ book_chapters \in ChapterLists
    /\ chapters_queue = book_chapters
    /\ book_chapters0 = book_chapters
    /\ oebps \in SUBSET {XhtmlName(book_chapters[i].filename) : i \in 1..Len(book_chapters)}
    /\ oebps0 = oebps
    /\ service \in [Filenames(book_chapters) -> ChapterDocs]
    \* create_dirs: book_ad_info is True when OEBPS had to be made
    /\ book_ad_info \in (IF oebps = {} THEN {0, 1} ELSE {0})
    /\ pc = "get"
    /\ page_links = <<>>
    /\ fetched = <<>>
    /\ css = <<>>
    /\ images = <<>>
    /\ book_notices = 0
    /\ state_status = 0
    /\ in_error = FALSE
    /\ AssetsIdle
    /\ ManifestIdle
    /\ TocIdle

\* get, queue empty: return to __init__
GetReturn ==
    /\ pc = "get"
    /\ chapters_queue = <<>>
    /\ pc' = "collect_css"
    /\ UNCHANGED <<css, images, chapterVars, displayVars>>
    /\ UNCHANGED <<manifestVars, tocVars, book_chapters, assetVars, poolVars, opfVars, linkVars, epubVars>>

\* Display.state called from the one process of the chapter phase
StateSequential(origin, done) ==
    LET progress == Progress(origin, done)
    IN  IF state_status < progress
        THEN state_status' = progress
        ELSE UNCHANGED state_status

\* get, the chapter's file is there: lines 550-559 and 564
GetSkip ==
    /\ pc = "get"
    /\ chapters_queue # <<>>
    /\ LET next_chapter == Head(chapters_queue)
       IN  /\ TargetFile(next_chapter.filename) \in oebps
           /\ chapters_queue' = Tail(chapters_queue)
           /\ IF /\ book_ad_info = 0
                 /\ \A i \in 1..(IndexOf(book_chapters, next_chapter) - 1) :
                        book_chapters[i] # next_chapter
              THEN /\ book_notices' = book_notices + 1
                   /\ book_ad_info' = 1
              ELSE UNCHANGED <<book_notices, book_ad_info>>
           /\ StateSequential(Len(book_chapters), Len(book_chapters) - Len(chapters_queue'))
    /\ UNCHANGED <<pc, oebps, page_links, fetched, css, images, in_error,
                   book_chapters0, oebps0, service>>
    /\ UNCHANGED <<manifestVars, tocVars, book_chapters, assetVars, poolVars, opfVars, linkVars, epubVars>>

\* get, the file is not there: get_html, parse_html, save_page_html (line
\* 562) and line 564
GetFetch ==
    /\ pc = "get"
    /\ chapters_queue # <<>>
    /\ LET next_chapter == Head(chapters_queue)
       IN  /\ TargetFile(next_chapter.filename) \notin oebps
           /\ chapters_queue' = Tail(chapters_queue)
           /\ fetched' = Append(fetched, next_chapter.filename)
           /\ LET doc == service[next_chapter.filename]
                    st == StylesheetLoop([css |-> css, count |-> 0, links |-> <<>>],
                                         doc.stylesheets)
                    file == SavedFile(next_chapter.filename)
               IN  /\ css' = st.css
                   /\ images' = ImagesAfterRewrite(images, doc.links)
                   /\ oebps' = oebps \cup {file}
                   /\ page_links' = Append(page_links, [file |-> file, links |-> st.links])
           /\ StateSequential(Len(book_chapters), Len(book_chapters) - Len(chapters_queue'))
    /\ UNCHANGED <<pc, book_ad_info, book_notices, in_error, book_chapters0, oebps0, service>>
    /\ UNCHANGED <<manifestVars, tocVars, book_chapters, assetVars, poolVars, opfVars, linkVars, epubVars>>

\* get, the file is not there and the request gets no response or an
\* unparsable page (get_html), or the page is the 'controls' page while
\* random() > 0.5 or has no sbo-rt-content node (parse_html): Display.exit,
\* sys.exit(128), before save_page_html
GetFatal ==
    /\ pc = "get"
    /\ chapters_queue # <<>>
    /\ LET next_chapter == Head(chapters_queue)
       IN  /\ TargetFile(next_chapter.filename) \notin oebps
           /\ chapters_queue' = Tail(chapters_queue)
           /\ fetched' = Append(fetched, next_chapter.filename)
    /\ DisplayExit
    /\ pc' = "exit"
    /\ oebps' = ChapterFilesOnExit(oebps, SavedFile(Head(chapters_queue).filename))
    /\ UNCHANGED <<page_links, css, images, book_ad_info, book_notices,
                   state_status, book_chapters0, oebps0, service>>
    /\ UNCHANGED <<manifestVars, tocVars, book_chapters, assetVars, poolVars, opfVars, linkVars>>
    /\ UNCHANGED <<docs, log_deleted, toc_reply, args_log, docs0, failed0>>

NextChapters == GetReturn \/ GetSkip \/ GetFetch \/ GetFatal

SpecChapters == InitChapters /\ [][NextChapters]_vars

AllChaptersOnDiskAtStart ==
    \A i \in 1..Len(book_chapters0) : XhtmlName(book_chapters0[i].filename) \in oebps0

\* C2: when every chapter of the manifest has its .xhtml file in OEBPS as
\* the crawl starts, the chapter phase requests no chapter document, writes
\* no chapter file and leaves book_chapters as it was.
C2_ResumeNoFetch ==
    AllChaptersOnDiskAtStart =>
        /\ fetched = <<>>
        /\ page_links = <<>>
        /\ oebps = oebps0
        /\ book_chapters = book_chapters0

C2_Witness ==
    /\ AllChaptersOnDiskAtStart
    /\ pc = "collect_css"
    /\ Len(book_chapters) = 2
    /\ book_chapters[1] # book_chapters[2]
    /\ chapters_queue = <<>>

\* C3: in every chapter written, the link of a stylesheet carries the
\* 1-based position of the stylesheet's URL in self.css.
C3_GlobalStyleNumber ==
    \A k \in 1..Len(page_links) : \A i \in 1..Len(page_links[k].links) :
        page_links[k].links[i].n = IndexOf(css, page_links[k].links[i].url)

----------------------------------------------------------------------------
(* The asset phases: collect_css, collect_images, _start_multiprocessing,  *)
(* _thread_download_css, _thread_download_images                           *)

PoolPcs == {"css_pool", "images_pool"}

\* The phase's kind of asset and its URL list (full_queue)
Kind == IF pc = "css_pool" THEN "css" ELSE "images"
FullQueue == IF pc = "css_pool" THEN css ELSE images

\* list.index counts from 0
PyIndex(s, x) == IndexOf(s, x) - 1

\* The file of a URL: "Style{0:0>2}.css".format(self.css.index(url)), written
\* <<"Style", n>>, and url.split("/")[-1]
LocalName(kind, url) ==
    IF kind = "css" THEN <<"Style", PyIndex(css, url)>> ELSE Last(Split(url, "/"))

\* full_queue[i:i+5]: the last position of the batch that begins at lo
BatchHi_WholeList(lo, n) == n

BatchHi(lo, n) == IF lo + BatchSize - 1 < n THEN lo + BatchSize - 1 ELSE n

NewPool(queue) ==
    /\ batch_lo' = 1
    /\ wst' = [k \in 1..Len(queue) |-> "none"]
    /\ wp' = [k \in 1..Len(queue) |-> 0]
    /\ qsize' = 0
    /\ UNCHANGED unreachable

\* collect_css, up to the call of _start_multiprocessing
CollectCss ==
    /\ pc = "collect_css"
    /\ dirs' = [dirs EXCEPT !["css"] = TRUE]
    /\ ad_info' = [ad_info EXCEPT !["css"] = IF dirs["css"] THEN @ ELSE 1]
    /\ state_status' = -1
    /\ NewPool(css)
    /\ pc' = "css_pool"
    /\ UNCHANGED <<files, written, notices, error_log, in_error, css, images>>
    /\ UNCHANGED <<manifestVars, tocVars, book_chapters, chapterVars, opfVars, linkVars, epubVars>>

\* collect_images, up to the call of _start_multiprocessing
CollectImages ==
    /\ pc = "collect_images"
    /\ dirs' = [dirs EXCEPT !["images"] = TRUE]
    /\ ad_info' = [ad_info EXCEPT !["images"] = IF dirs["images"] THEN @ ELSE 1]
    /\ state_status' = -1
    /\ NewPool(images)
    /\ pc' = "images_pool"
    /\ UNCHANGED <<files, written, notices, error_log, in_error, css, images>>
    /\ UNCHANGED <<manifestVars, tocVars, book_chapters, chapterVars, opfVars, linkVars, epubVars>>

\* What a request that got no response does to the run: display.error is
\* called in the worker, the run goes on
AfterFailedRequest_Exit(p) == "exit"

AfterFailedRequest(p) == p

\* The positions of the batch at work
Batch == batch_lo..BatchHi(batch_lo, Len(FullQueue))

\* lines 625-627: the processes of the batch are made and started.  A start
\* touches nothing a running worker reads, so the loop is one step.
PoolStart ==
    /\ pc \in PoolPcs
    /\ Batch # {}
    /\ \A k \in Batch : wst[k] = "none"
    /\ wst' = [k \in DOMAIN wst |-> IF k \in Batch THEN "check" ELSE wst[k]]
    /\ UNCHANGED <<pc, css, images, batch_lo, wp, qsize, unreachable, assetVars, displayVars>>
    /\ UNCHANGED <<manifestVars, tocVars, book_chapters, chapterVars, opfVars, linkVars, epubVars>>

\* lines 629-630: the loop of joins ends when every process of the batch has
\* ended; the loop of line 621 then goes to the next slice
PoolJoin ==
    /\ pc \in PoolPcs
    /\ Batch # {}
    /\ \A k \in Batch : wst[k] \in {"ended", "crashed"}
    /\ wst' = [k \in DOMAIN wst |-> IF k \in Batch THEN "joined" ELSE wst[k]]
    /\ batch_lo' = IF BatchHi(batch_lo, Len(FullQueue)) < Len(FullQueue)
                   THEN BatchHi(batch_lo, Len(FullQueue)) + 1 ELSE batch_lo
    /\ UNCHANGED <<pc, css, images, wp, qsize, unreachable, assetVars, displayVars>>
    /\ UNCHANGED <<manifestVars, tocVars, book_chapters, chapterVars, opfVars, linkVars, epubVars>>

\* _start_multiprocessing returns, and with it collect_css or collect_images
PoolReturn ==
    /\ pc \in PoolPcs
    /\ \A k \in 1..Len(FullQueue) : wst[k] = "joined"
    /\ pc' = IF pc = "css_pool" THEN "collect_images" ELSE "create_epub"
    /\ UNCHANGED <<css, images, poolVars, assetVars, displayVars>>
    /\ UNCHANGED <<manifestVars, tocVars, book_chapters, chapterVars, opfVars, linkVars, epubVars>>

WorkerFrame ==
    /\ UNCHANGED <<pc, css, images, batch_lo, unreachable>>
    /\ UNCHANGED <<manifestVars, tocVars, book_chapters, chapterVars, opfVars, linkVars, epubVars>>

\* No other entry of the URL list has the file of entry k: no other worker
\* of the phase reads or writes that file, so what worker k does to the file
\* between its os.path.isfile and its last write is one step for the others.
SoleUser(k) ==
    \A j \in 1..Len(FullQueue) :
        j # k => LocalName(Kind, FullQueue[j]) # LocalName(Kind, FullQueue[k])

FileThere(k) == LocalName(Kind, FullQueue[k]) \in files[Kind]

\* The service gives no response for the URL
NoResponse(k) == FullQueue[k] \in unreachable

\* open(file, 'wb') and the writes, or the AttributeError, that follow
FileWritten_OnlyWithBody(k, isEmpty) ==
    LET name == LocalName(Kind, FullQueue[k])
    IN  IF isEmpty
        THEN UNCHANGED <<files, written>>
        ELSE /\ files' = [files EXCEPT ![Kind] = @ \cup {name}]
             /\ written' = [written EXCEPT ![Kind] =
                              (@ \ {w \in @ : w.name = name})
                              \cup {[name |-> name, url |-> FullQueue[k], empty |-> FALSE]}]

FileWritten(k, isEmpty) ==
    LET name == LocalName(Kind, FullQueue[k])
    IN  /\ files' = [files EXCEPT ![Kind] = @ \cup {name}]
        /\ written' = [written EXCEPT ![Kind] =
                         (@ \ {w \in @ : w.name = name})
                         \cup {[name |-> name, url |-> FullQueue[k], empty |-> isEmpty]}]

\* lines 568-570 and 591-594: os.path.isfile, and the condition of the
\* advisory when the file is there
WCheck(k) ==
    /\ pc \in PoolPcs
    /\ wst[k] = "check"
    /\ FileThere(k) \/ ~SoleUser(k)
    /\ LET url == FullQueue[k]
       IN  wst' = [wst EXCEPT ![k] =
                IF FileThere(k)
                THEN IF /\ ad_info[Kind] = 0
                        /\ \A j \in 1..PyIndex(FullQueue, url) : FullQueue[j] # url
                     THEN "notice" ELSE "skip"
                ELSE "download"]
    /\ UNCHANGED <<wp, qsize, assetVars, displayVars>>
    /\ WorkerFrame

\* the file is there and no advisory is due: done_queue.put(1)
WSkip(k) ==
    /\ pc \in PoolPcs
    /\ wst[k] = "skip"
    /\ qsize' = qsize + 1
    /\ wst' = [wst EXCEPT ![k] = "state"]
    /\ UNCHANGED <<wp, assetVars, displayVars>>
    /\ WorkerFrame

\* lines 571-576 and 595-600: display.info and the flag set; done_queue.put(1)
WNotice(k) ==
    /\ pc \in PoolPcs
    /\ wst[k] = "notice"
    /\ notices' = [notices EXCEPT ![Kind] = @ + 1]
    /\ ad_info' = [ad_info EXCEPT ![Kind] = 1]
    /\ qsize' = qsize + 1
    /\ wst' = [wst EXCEPT ![k] = "state"]
    /\ UNCHANGED <<wp, dirs, files, written, error_log, displayVars>>
    /\ WorkerFrame

\* lines 579-585 and 603-611 with a response: the body is written to the
\* file; done_queue.put(1).  From "check" when the file is absent and the
\* worker is its sole user, else from "download".
WDownload(k) ==
    /\ pc \in PoolPcs
    /\ \/ wst[k] = "download"
       \/ wst[k] = "check" /\ ~FileThere(k) /\ SoleUser(k)
    /\ ~NoResponse(k)
    /\ FileWritten(k, FALSE)
    /\ qsize' = qsize + 1
    /\ wst' = [wst EXCEPT ![k] = "state"]
    /\ UNCHANGED <<wp, dirs, ad_info, notices, error_log, displayVars>>
    /\ WorkerFrame

\* lines 579-585 and 603-611 without a response: requests_provider returns 0,
\* display.error is called in the worker process, open(.., 'wb') makes the
\* file empty, and 0.iter_content raises AttributeError, which ends the
\* worker process and no other
WDownloadFails(k) ==
    /\ pc \in PoolPcs
    /\ \/ wst[k] = "download"
       \/ wst[k] = "check" /\ ~FileThere(k) /\ SoleUser(k)
    /\ NoResponse(k)
    /\ error_log' = error_log \cup {FullQueue[k]}
    /\ FileWritten(k, TRUE)
    /\ wst' = [wst EXCEPT ![k] = "crashed"]
    /\ pc' = AfterFailedRequest(pc)
    /\ UNCHANGED <<wp, qsize, dirs, ad_info, notices, displayVars>>
    /\ UNCHANGED <<css, images, batch_lo, unreachable>>
    /\ UNCHANGED <<manifestVars, tocVars, book_chapters, chapterVars, opfVars, linkVars, epubVars>>

\* self.display.state(len(..), done_queue.qsize()) up to line 120: the
\* read of the queue's size and the read of state_status that follows it,
\* taken as one step
WStateRead(k) ==
    /\ pc \in PoolPcs
    /\ wst[k] = "state"
    /\ LET progress == Progress(Len(FullQueue), qsize)
       IN  IF state_status < progress
           THEN /\ wp' = [wp EXCEPT ![k] = progress]
                /\ wst' = [wst EXCEPT ![k] = "state_write"]
           ELSE /\ wst' = [wst EXCEPT ![k] = "ended"]
                /\ UNCHANGED wp
    /\ UNCHANGED <<qsize, assetVars, displayVars>>
    /\ WorkerFrame

\* lines 121-125 of Display.state: the write of state_status and of the bar;
\* the worker ends, its local progress is gone
WStateWrite(k) ==
    /\ pc \in PoolPcs
    /\ wst[k] = "state_write"
    /\ state_status' = wp[k]
    /\ wp' = [wp EXCEPT ![k] = 0]
    /\ wst' = [wst EXCEPT ![k] = "ended"]
    /\ UNCHANGED <<qsize, assetVars, in_error>>
    /\ WorkerFrame

Check == \E k \in DOMAIN wst : WCheck(k)
Skip == \E k \in DOMAIN wst : WSkip(k)
Notice == \E k \in DOMAIN wst : WNotice(k)
Download == \E k \in DOMAIN wst : WDownload(k)
DownloadFails == \E k \in DOMAIN wst : WDownloadFails(k)
StateRead == \E k \in DOMAIN wst : WStateRead(k)
StateWrite == \E k \in DOMAIN wst : WStateWrite(k)

NextAssets ==
    \/ CollectCss
    \/ CollectImages
    \/ PoolStart
    \/ PoolJoin
    \/ PoolReturn
    \/ Check
    \/ Skip
    \/ Notice
    \/ Download
    \/ DownloadFails
    \/ StateRead
    \/ StateWrite

\* The chapters get fetches, in order, when the files of disk are there
RECURSIVE FetchedFrom(_, _)
FetchedFrom(chs, disk) ==
    IF chs = <<>> THEN <<>>
    ELSE LET file == XhtmlName(Head(chs).filename)
         IN  IF file \in disk
             THEN FetchedFrom(Tail(chs), disk)
             ELSE <<Head(chs).filename>> \o FetchedFrom(Tail(chs), disk \cup {file})

\* The state as collect_css is called, with the chapter phase of the book chs
\* behind: in a book directory that was there the first chapter was on disk
\* and the others were fetched, in a new one all were fetched.  page_links,
\* the history of the chapter phase, is not kept.
ChaptersDone(chs, resumed) ==
    /\ book_chapters = chs
    /\ book_chapters0 = chs
    /\ chapters_queue = <<>>
    /\ oebps = {XhtmlName(chs[i].filename) : i \in 1..Len(chs)}
    /\ oebps0 = IF resumed THEN {XhtmlName(chs[1].filename)} ELSE {}
    /\ service = <<>>
    /\ page_links = <<>>
    /\ fetched = FetchedFrom(chs, oebps0)
    /\ book_ad_info = 1
    /\ book_notices = IF resumed THEN 1 ELSE 0
    /\ state_status = 100
    /\ in_error = FALSE

TwoChapters ==
    <<[filename |-> F_ch1, title |-> "One"], [filename |-> F_ch2, title |-> "Two"]>>

\* A list of n stylesheet URLs, all different
U(n) == <<"https:", "//", "cdn.example/", n>>

InitPool ==
    /\ pc = "collect_css"
    /\ css \in {[k \in 1..n |-> U(k)] : n \in 0..MaxUrls}
    /\ images = <<>>
    /\ dirs = [k \in Kinds |-> FALSE]
    /\ files = [k \in Kinds |-> {}]
    /\ written = [k \in Kinds |-> {}]
    /\ ad_info = [k \in Kinds |-> 0]
    /\ notices = [k \in Kinds |-> 0]
    /\ error_log = {}
    /\ OpfIdle
    /\ LinkIdle
    /\ EpubIdle
    /\ batch_lo = 0
    /\ wst = <<>>
    /\ wp = <<>>
    /\ qsize = 0
    /\ unreachable \in {{}, {U(2)}}
    /\ ChaptersDone(TwoChapters, FALSE)
    /\ ManifestIdle
    /\ TocIdle

\* The steps of a run that finds no Styles and no Images directory
NextPool ==
    \/ CollectCss
    \/ CollectImages
    \/ PoolStart
    \/ PoolJoin
    \/ PoolReturn
    \/ Download
    \/ DownloadFails
    \/ StateRead
    \/ StateWrite

SpecPool == InitPool /\ [][NextPool]_vars

L_images_x == <<"/", "i", "m", "a", "g", "e", "s", "/", "x", ".", "p", "n", "g">>

CssUrlLists ==
    LET a == css_url(H_rel)
        b == css_url(H_proto)
    IN  {<<>>, <<a>>, <<b>>, <<a, b>>, <<b, a>>}

ImageLinks == {L_cover, L_jpg, L_images_x}

ImageLists ==
    {<<>>} \cup {<<a>> : a \in ImageLinks} \cup {<<a, b>> : a, b \in ImageLinks}

\* What an earlier run may have left: no directory, or a directory with files
StylesOnDisk ==
    { [dir |-> FALSE, files |-> {}], [dir |-> TRUE, files |-> {}],
      [dir |-> TRUE, files |-> {<<"Style", 0>>}],
      [dir |-> TRUE, files |-> {<<"Style", 0>>, <<"Style", 1>>}] }

ImagesOnDisk ==
    { [dir |-> FALSE, files |-> {}], [dir |-> TRUE, files |-> {}],
      [dir |-> TRUE, files |-> {Last(Split(L_cover, "/"))}] }

InitAssets ==
    /\ pc = "collect_css"
    /\ css \in CssUrlLists
    /\ images \in ImageLists
    /\ \E sd \in StylesOnDisk, imd \in ImagesOnDisk :
         /\ dirs = [css |-> sd.dir, images |-> imd.dir]
         /\ files = [css |-> sd.files, images |-> imd.files]
         /\ ChaptersDone(TwoChapters, sd.dir \/ imd.dir)
    /\ written = [k \in Kinds |-> {}]
    /\ ad_info = [k \in Kinds |-> 0]
    /\ notices = [k \in Kinds |-> 0]
    /\ error_log = {}
    /\ OpfIdle
    /\ LinkIdle
    /\ EpubIdle
    /\ batch_lo = 0
    /\ wst = <<>>
    /\ wp = <<>>
    /\ qsize = 0
    /\ unreachable \in {{}} \cup {{u} : u \in Range(css) \cup Range(images)}
    /\ ManifestIdle
    /\ TocIdle

SpecAssets == InitAssets /\ [][NextAssets]_vars

\* C4: the file written for a stylesheet URL is Style<kk>.css with k the
\* 1-based position of the URL in self.css.
C4_PositionalStyleName ==
    \A w \in written["css"] : w.name = <<"Style", IndexOf(css, w.url)>>

\* C6: a request that fails in a worker is reported and ends that worker
\* alone: the run is never aborted by it, no other worker crashes, and when
\* the stylesheet phase is over every URL of the list has had its worker,
\* the failed one leaving an empty file and the others a written one, and
\* the run is in the next phase or at the assembly.
C6_FailureStaysInWorker ==
    /\ pc # "exit"
    /\ pc \in PoolPcs =>
         \A k \in DOMAIN wst :
            /\ wst[k] = "crashed" => FullQueue[k] \in unreachable \cap error_log
            /\ (wst[k] \in {"ended", "joined"} /\ FullQueue[k] \notin unreachable) =>
                  \E w \in written[Kind] :
                     w.name = LocalName(Kind, FullQueue[k]) /\ ~w.empty
    /\ pc \in {"collect_images", "images_pool", "create_epub"} =>
         \A k \in 1..Len(css) :
            \E w \in written["css"] :
               /\ w.name = LocalName("css", css[k])
               /\ w.empty = (css[k] \in unreachable)

\* six URLs, the second one fails in the first batch: the sixth is written
\* by the second batch and the run is at the assembly
C6_Witness ==
    /\ pc = "create_epub"
    /\ Len(css) = 6
    /\ unreachable = {css[2]}
    /\ [name |-> <<"Style", 1>>, url |-> css[2], empty |-> TRUE] \in written["css"]
    /\ [name |-> <<"Style", 5>>, url |-> css[6], empty |-> FALSE] \in written["css"]
    /\ css[2] \in error_log


----------------------------------------------------------------------------
(* create_content_opf *)

\* html.escape(s), quote=True
EscapeChar(c) ==
    CASE c = "&" -> <<"&", "a", "m", "p", ";">>
      [] c = "<" -> <<"&", "l", "t", ";">>
      [] c = ">" -> <<"&", "g", "t", ";">>
      [] c = "\"" -> <<"&", "q", "u", "o", "t", ";">>
      [] c = "'" -> <<"&", "#", "x", "2", "7", ";">>
      [] OTHER -> <<c>>

RECURSIVE escape(_)
escape(s) == IF s = <<>> THEN <<>> ELSE EscapeChar(Head(s)) \o escape(Tail(s))

\* "".join(parts)
RECURSIVE Join(_)
Join(parts) == IF parts = <<>> THEN <<>> ELSE Head(parts) \o Join(Tail(parts))

\* parts[:-1]
AllButLast(parts) == SubSeq(parts, 1, Len(parts) - 1)

\* line 670: escape("".join(c["filename"].split(".")[:-1]))
item_id(filename) == escape(Join(AllButLast(Split(filename, "."))))

\* lines 678-679: "img_" + escape("".join(dot_split[:-1]))
IMG_ == <<"i", "m", "g", "_">>
head(i) == IMG_ \o escape(Join(AllButLast(Split(i, "."))))

\* lines 680-682: "jpeg" if "jp" in extension else extension
JP == <<"j", "p">>
JPEG == <<"j", "p", "e", "g">>
image_type(i) ==
    LET extension == Last(Split(i, "."))
    IN  IF Contains(extension, JP) THEN JPEG ELSE extension

\* "{0:0>2}".format(i)
Digit(d) == CASE d = 0 -> "0" [] d = 1 -> "1" [] d = 2 -> "2" [] d = 3 -> "3"
              [] d = 4 -> "4" [] d = 5 -> "5" [] d = 6 -> "6" [] d = 7 -> "7"
              [] d = 8 -> "8" [] d = 9 -> "9"
RECURSIVE Decimal(_)
Decimal(i) == IF i < 10 THEN <<Digit(i)>> ELSE Decimal(i \div 10) \o <<Digit(i % 10)>>
Pad2(i) == IF i < 10 THEN <<"0">> \o Decimal(i) ELSE Decimal(i)

STYLE_ == <<"s", "t", "y", "l", "e", "_">>
STYLES_STYLE == <<"S", "t", "y", "l", "e", "s", "/", "S", "t", "y", "l", "e">>
DOT_CSS == <<".", "c", "s", "s">>
IMAGES_SLASH == <<"I", "m", "a", "g", "e", "s", "/">>
XHTML_TYPE == <<"application/xhtml+xml">>
IMAGE_SLASH == <<"image/">>
TEXT_CSS == <<"text/css">>

\* str(False), what "{7}".format(alt_cover_id) gives when no image was listed
STR_FALSE == <<"F", "a", "l", "s", "e">>

\* The <item> the template itself holds
NcxItem == [id |-> <<"n", "c", "x">>, href |-> <<"t", "o", "c", ".", "n", "c", "x">>, media |-> <<"application/x-dtbncx+xml">>]

\* next(os.walk(path))[2]: the files of a directory, in the order the file
\* system gives them
Listings(S) ==
    {l \in [1..Cardinality(S) -> S] : \A i, j \in 1..Cardinality(S) : l[i] = l[j] => i = j}

\* spine.append(...) in the loop over the chapters (lines 668-674): the
\* idrefs, one per chapter item, in the order of the list
SpineRefs_Reversed(chapter_items) ==
    [i \in 1..Len(chapter_items) |-> chapter_items[Len(chapter_items) + 1 - i].id]

SpineRefs(chapter_items) == [i \in 1..Len(chapter_items) |-> chapter_items[i].id]

\* create_epub up to and with the writing of content.opf (lines 762-771):
\* mimetype, container.xml, and create_content_opf (lines 661-711)
CreateContentOpf ==
    /\ pc = "create_epub"
    /\ book_chapters # <<>>
    /\ \E css_files \in Listings(files["css"]), image_files \in Listings(files["images"]) :
         LET chapters == [i \in 1..Len(book_chapters) |->
                             [book_chapters[i] EXCEPT !.filename = XhtmlName(@)]]
             chapter_items == [i \in 1..Len(chapters) |->
                                 [id |-> item_id(chapters[i].filename),
                                  href |-> chapters[i].filename,
                                  media |-> XHTML_TYPE]]
             image_items == [i \in 1..Len(image_files) |->
                               [id |-> head(image_files[i]),
                                href |-> IMAGES_SLASH \o image_files[i],
                                media |-> IMAGE_SLASH \o image_type(image_files[i])]]
             style_items == [i \in 1..Len(css_files) |->
                               [id |-> STYLE_ \o Pad2(i),
                                href |-> STYLES_STYLE \o Pad2(i) \o DOT_CSS,
                                media |-> TEXT_CSS]]
             alt_cover_id == IF image_files = <<>> THEN STR_FALSE
                             ELSE head(image_files[1])
         IN  /\ cover' = IF Len(images) > 0 THEN images[1] ELSE <<>>
             /\ css' = css_files
             /\ images' = image_files
             /\ book_chapters' = chapters
             /\ manifest' = <<NcxItem>> \o chapter_items \o image_items \o style_items
             /\ spine' = SpineRefs(chapter_items)
             /\ cover_id' = IF cover' # <<>> THEN cover' ELSE alt_cover_id
             /\ cover_url' = XhtmlName(chapters[1].filename)
    /\ docs' = docs \cup {[name |-> "mimetype", empty |-> FALSE],
                           [name |-> "META-INF/container.xml", empty |-> FALSE],
                           [name |-> "OEBPS/content.opf", empty |-> FALSE]}
    /\ pc' = "content_opf"
    /\ UNCHANGED <<manifestVars, tocVars, chapterVars, displayVars, assetVars, poolVars>>
    /\ UNCHANGED <<linkVars, log_deleted, exit_status, toc_reply, args_log, docs0, failed0>>

F_amp == <<"q", "&", "a", ".", "h", "t", "m", "l">>
L_xjpg == <<"/", "i", "m", "a", "g", "e", "s", "/", "x", ".", "j", "p", "g">>

AssembleRecords == ChapterRecords \cup {[filename |-> F_amp, title |-> "Four"]}

\* Books of chapters with different file names
AssembleChapterLists ==
    UNION { {l \in [1..n -> AssembleRecords] :
                \A i, j \in 1..n : l[i].filename = l[j].filename => i = j}
            : n \in 1..MaxChapters }

AssembleImageLists == {<<>>, <<L_cover>>, <<L_cover, L_xjpg>>}

AssembleStyles ==
    { [dir |-> FALSE, files |-> {}], [dir |-> TRUE, files |-> {<<"Style", 0>>}] }

AssembleImages ==
    { [dir |-> FALSE, files |-> {}], [dir |-> TRUE, files |-> {}],
      [dir |-> TRUE, files |-> {Last(Split(L_cover, "/"))}],
      [dir |-> TRUE, files |-> {Last(Split(L_cover, "/")), Last(Split(L_xjpg, "/"))}] }

\* The run from collect_css on.  Nothing is discovered when no chapter was
\* fetched.
InitAssemble ==
    /\ pc = "collect_css"
    /\ \E chs \in AssembleChapterLists, sd \in AssembleStyles, imd \in AssembleImages :
         /\ ChaptersDone(chs, sd.dir \/ imd.dir)
         /\ dirs = [css |-> sd.dir, images |-> imd.dir]
         /\ files = [css |-> sd.files, images |-> imd.files]
    /\ css \in (IF fetched = <<>> THEN {<<>>} ELSE {<<>>, <<css_url(H_rel)>>})
    /\ images \in (IF fetched = <<>> THEN {<<>>} ELSE AssembleImageLists)
    /\ written = [k \in Kinds |-> {}]
    /\ ad_info = [k \in Kinds |-> 0]
    /\ notices = [k \in Kinds |-> 0]
    /\ error_log = {}
    /\ OpfIdle
    /\ LinkIdle
    /\ EpubIdle
    /\ batch_lo = 0
    /\ wst = <<>>
    /\ wp = <<>>
    /\ qsize = 0
    /\ unreachable \in {{}} \cup {{images[i]} : i \in 1..Len(images)}
    /\ ManifestIdle
    /\ TocIdle

NextAssemble ==
    \/ CollectCss
    \/ CollectImages
    \/ PoolStart
    \/ PoolJoin
    \/ PoolReturn
    \/ Check
    \/ Skip
    \/ Notice
    \/ Download
    \/ DownloadFails
    \/ StateRead
    \/ StateWrite
    \/ CreateContentOpf

SpecAssemble == InitAssemble /\ [][NextAssemble]_vars

ChapterItem(i) == manifest[i + 1]

\* C9: in the manifest of content.opf, chapters with different file names
\* have different ids.
C9_DistinctItemIds ==
    pc = "content_opf" =>
        \A i, j \in 1..Len(book_chapters0) :
            book_chapters0[i].filename # book_chapters0[j].filename
                => ChapterItem(i).id # ChapterItem(j).id

ImageItems == {i \in 1..Len(manifest) : StartsAt(manifest[i].href, IMAGES_SLASH, 1)}

\* C10: the cover reference of content.opf is not empty; it is the first
\* discovered image when an image was discovered, and the id of the first
\* image item of the manifest when none was.
C10_CoverReference ==
    pc = "content_opf" =>
        /\ cover_id # <<>>
        /\ cover # <<>> => cover_id = cover
        /\ cover = <<>> =>
             /\ ImageItems # {}
             /\ cover_id = manifest[CHOOSE i \in ImageItems : \A j \in ImageItems : i <= j].id


\* The workers started and not yet joined
InFlight == {k \in DOMAIN wst : wst[k] \notin {"none", "joined"}}

BatchOf(k) == (k - 1) \div BatchSize

\* C5: at most 5 workers are started and not yet joined; a worker is started
\* only when every worker of the earlier batches is joined; and when
\* _start_multiprocessing has returned every URL of the list has had its
\* worker, which has ended and is joined.
C5_BatchCeiling ==
    /\ pc \in PoolPcs =>
         /\ Cardinality(InFlight) <= 5
         /\ DOMAIN wst = 1..Len(FullQueue)
         /\ \A j, k \in DOMAIN wst :
              (BatchOf(j) < BatchOf(k) /\ wst[k] # "none") => wst[j] = "joined"
    /\ pc = "collect_images" =>
         /\ DOMAIN wst = 1..Len(css)
         /\ \A k \in DOMAIN wst : wst[k] = "joined"

\* six URLs: the sixth worker runs when the first five are joined
C5_Witness ==
    /\ pc = "css_pool"
    /\ Len(css) = 6
    /\ wst[6] = "state_write"
    /\ \A k \in 1..5 : wst[k] = "joined"

\* C7: within a download phase every write of Display.state raises
\* state_status: the value never decreases, and no percentage is written that
\* was written before (a percentage written again either follows a larger
\* one or repeats the value state_status has).
C7_ProgressMonotonic ==
    [][\A k \in DOMAIN wst :
          (pc \in PoolPcs /\ wst[k] = "state_write" /\ wst'[k] = "ended")
              => state_status' > state_status]_vars

----------------------------------------------------------------------------
(* The manifest and the Styles directory *)

\* The href a manifest item would need to name the file f of OEBPS/Styles
StyleFileHref(f) == STYLES_STYLE \o Pad2(f[2]) \o DOT_CSS

StyleItems == {i \in 1..Len(manifest) : manifest[i].media = TEXT_CSS}

\* C11: the stylesheet items of the manifest are the files of OEBPS/Styles:
\* every item's href names a file that is there and every file has an item.
C11_StyleItemsMatchDisk ==
    pc = "content_opf" =>
        {manifest[i].href : i \in StyleItems} = {StyleFileHref(f) : f \in files["css"]}

----------------------------------------------------------------------------
(* link_replace, called on one reference after another *)

MaxLinkCalls == 3

L_jpeg == <<"/", "a", "/", "y", ".", "j", "p", "e", "g">>
L_history == <<"h", "i", "s", "t", "o", "r", "y", ".", "h", "t", "m", "l">>
L_abs == <<"h", "t", "t", "p", "s", ":", "/", "/", "c", "d", "n", ".", "e", "x", "a", "m", "p", "l", "e", "/", "x", ".", "j", "s">>
L_root == <<"/", "a", "/", "b", ".", "h", "t", "m", "l">>
L_local == <<"I", "m", "a", "g", "e", "s", "/", "x", ".", "p", "n", "g">>
L_mailto == <<"m", "a", "i", "l", "t", "o", ":", "a", "@", "b", ".", "h", "t", "m", "l">>

\* The references of a page handed to link_replace
LinkInputs ==
    {L_cover, L_jpg, L_jpeg, L_images_x, L_page, L_history, L_abs, L_root, L_local,
     L_mailto}

InitLinks ==
    /\ ManifestIdle
    /\ TocIdle
    /\ book_chapters = <<>>
    /\ RunIdle

\* One call of link_replace (lines 450-461)
LinkReplace ==
    /\ link_calls < MaxLinkCalls
    /\ \E l \in LinkInputs :
         /\ link_arg' = l
         /\ link_ret' = link_replace(l)
         /\ images' = IF IsImageLink(l) THEN Append(images, l) ELSE images
    /\ link_calls' = link_calls + 1
    /\ UNCHANGED <<manifestVars, tocVars, book_chapters, chapterVars, displayVars>>
    /\ UNCHANGED <<pc, css, assetVars, poolVars, opfVars, epubVars>>

NextLinks == LinkReplace

SpecLinks == InitLinks /\ [][NextLinks]_vars

HasDot(s) == \E i \in 1..Len(s) : s[i] = "."

Extension(s) == IF HasDot(s) THEN Last(Split(s, ".")) ELSE <<>>

\* An image reference as the specification has it
ImageReference(l) ==
    /\ l[1] = "/"
    /\ \/ Contains(l, S_cover)
       \/ Contains(l, S_images)
       \/ Contains(l, S_graphics)
       \/ Extension(l) \in ImageExtensions

\* C12: a reference that starts with "/" and contains cover, images or
\* graphics or has the extension jpg, jpeg or png is recorded in self.images
\* in its original form and Images/<final path segment> is returned.
C12_ImageReferenceLocalized ==
    (link_calls > 0 /\ ImageReference(link_arg)) =>
        /\ link_ret = S_Images_slash \o Last(Split(link_arg, "/"))
        /\ images # <<>>
        /\ Last(images) = link_arg

\* A reference with a scheme: letters, then ":"
HasScheme(l) ==
    /\ \E i \in 1..Len(l) : l[i] = ":"
    /\ LET scheme == Head(Split(l, ":"))
       IN  scheme # <<>> /\ \A i \in 1..Len(scheme) : scheme[i] \notin {"/", ".", "?", "#"}

\* C13: a reference that is neither root-relative nor absolute has .html
\* rewritten to .xhtml, whatever its first character; every other reference
\* that is no image reference is returned as it is.
C13_PageReferenceRewritten ==
    (link_calls > 0 /\ ~ImageReference(link_arg)) =>
        IF link_arg[1] # "/" /\ ~HasScheme(link_arg)
        THEN link_ret = Replace(link_arg, DOT_HTML, DOT_XHTML)
        ELSE link_ret = link_arg

----------------------------------------------------------------------------
(* The discovery lists *)

NoDuplicates(s) == \A i, j \in 1..Len(s) : s[i] = s[j] => i = j

\* C14: whatever chapters were normalized, self.css and self.images hold no
\* URL twice.
C14_DiscoveryDeduplicated ==
    /\ NoDuplicates(css)
    /\ NoDuplicates(images)

----------------------------------------------------------------------------
(* The advisories *)

\* C15: in one run the 'File already exists' advisory is given at most once
\* for the stylesheets and at most once for the images.
C15_AdvisoryOncePerKind ==
    \A kind \in Kinds : notices[kind] <= 1

\* C16: in the chapter phase the 'File already exists' notice is given at
\* most once, and only for a file that was there when the run began, never
\* for one written in this run for an equal record earlier in the list.
C16_NoticeNotForDuplicate ==
    [][book_notices' # book_notices =>
          /\ book_notices' = 1
          /\ TargetFile(Head(chapters_queue).filename) \in oebps0]_vars

----------------------------------------------------------------------------
(* The cover record *)

\* The records of all pages in the service's order
RECURSIVE NaturalOrder(_)
NaturalOrder(ps) ==
    IF ps = <<>> THEN <<>> ELSE Head(ps).results \o NaturalOrder(Tail(ps))

NotCover(c) == ~IsCover(c)

\* C17: when a record of the manifest is a cover record, on whichever page,
\* the returned list begins with it, and the records that are no cover follow
\* in the service's order across the pages.
C17_CoverFirstOverall ==
    (mstate = "returned" /\ \E i \in 1..Len(book_chapters) : IsCover(book_chapters[i])) =>
        /\ IsCover(book_chapters[1])
        /\ SelectSeq(Tail(book_chapters), NotCover) = SelectSeq(NaturalOrder(pages), NotCover)

----------------------------------------------------------------------------
(* The chapter phase as a whole *)

IsPrefix(s, t) == Len(s) <= Len(t) /\ SubSeq(t, 1, Len(s)) = s

\* The chapter phase has ended and no fatal error was met
ChapterPhaseEnded == pc = "collect_css"

\* C18: the records are handled in the order of the list, and the documents
\* fetched are those, in that order, whose target file was absent when the
\* record was handled; when the phase has ended without a fatal error the
\* queue is empty, every record has its normalized file in OEBPS and no
\* document was fetched twice.
C18_ChapterPhaseComplete ==
    /\ chapters_queue = SubSeq(book_chapters0, Len(book_chapters0) - Len(chapters_queue) + 1,
                               Len(book_chapters0))
    /\ IsPrefix(fetched, FetchedFrom(book_chapters0, oebps0))
    /\ NoDuplicates(fetched)
    /\ ChapterPhaseEnded =>
         /\ chapters_queue = <<>>
         /\ fetched = FetchedFrom(book_chapters0, oebps0)
         /\ \A i \in 1..Len(book_chapters0) :
              XhtmlName(book_chapters0[i].filename) \in oebps

\* two different chapters, the first was on disk and the second was fetched
C18_Witness ==
    /\ ChapterPhaseEnded
    /\ Len(book_chapters0) = 2
    /\ oebps0 = {XhtmlName(book_chapters0[1].filename)}
    /\ fetched = <<book_chapters0[2].filename>>

----------------------------------------------------------------------------
(* The fatal errors of get_book_chapters *)

\* The pages whose response the specification calls fatal: no object, an object of
\* at most one key, or a first page of zero results
ZeroResults(response) ==
    \/ response.kind = "noresults"
    \/ response.kind = "page" /\ response.results = <<>>

FatalPages ==
    {i \in 1..Len(pages) :
        \/ pages[i].kind \in {"notdict", "onekey", "nokeys"}
        \/ i = 1 /\ ZeroResults(pages[1])}

\* C19: when a page's response is no object or an object of at most one
\* key, or the first page has zero results, get_book_chapters ends the run
\* with Display.exit: no list is returned, no page is requested again or
\* after the fatal one, and no chapter document is fetched.
C19_ManifestFatal ==
    (mstate # "call" /\ FatalPages # {}) =>
        /\ mstate = "exit"
        /\ exit_status = ExitCode
        /\ in_error
        /\ book_chapters = <<>>
        /\ \A i \in FatalPages : page_requests <= i
        /\ fetched = <<>>
        /\ pc = "idle"

\* a good first page, then the object of no key: two requests, then the exit
C19_Witness ==
    /\ mstate = "exit"
    /\ Len(pages) = 2
    /\ pages[1].kind = "page"
    /\ pages[1].results # <<>>
    /\ pages[2].kind = "nokeys"
    /\ page_requests = 2

----------------------------------------------------------------------------
(* The run of __init__, from get_book_chapters to sys.exit *)

\* lines 263-279: the queue is a copy of the list, create_dirs, the empty
\* discovery lists.  OEBPS is there when something in it is.
StartChapterPhase ==
    /\ mstate = "returned"
    /\ pc = "idle"
    /\ chapters_queue' = book_chapters
    /\ book_chapters0' = book_chapters
    /\ book_ad_info' = IF oebps = {} /\ ~dirs["css"] /\ ~dirs["images"] THEN 1 ELSE 0
    /\ css' = <<>>
    /\ images' = <<>>
    /\ pc' = "get"
    /\ UNCHANGED <<manifestVars, tocVars, book_chapters, displayVars, assetVars, poolVars>>
    /\ UNCHANGED <<oebps, oebps0, service, page_links, fetched, book_notices>>
    /\ UNCHANGED <<opfVars, linkVars, epubVars>>

\* line 772: open(".../toc.ncx", "w") is evaluated before its argument,
\* self.create_toc(): the file is there, empty, when the request is made
OpenTocNcx ==
    /\ pc = "content_opf"
    /\ docs' = {d \in docs : d.name # "OEBPS/toc.ncx"}
                  \cup {[name |-> "OEBPS/toc.ncx", empty |-> TRUE]}
    /\ pc' = "create_toc"
    /\ UNCHANGED <<manifestVars, tocVars, book_chapters, chapterVars, css, images>>
    /\ UNCHANGED <<displayVars, assetVars, poolVars, opfVars, linkVars>>
    /\ UNCHANGED <<log_deleted, exit_status, toc_reply, args_log, docs0, failed0>>

Toc_one == <<[id |-> 1, depth |-> 1, children |-> <<>>]>>
Toc_nested ==
    <<[id |-> 1, depth |-> 1,
       children |-> <<[id |-> 2, depth |-> 2, children |-> <<>>]>>]>>

\* What the service may answer to the toc/ request: nothing, an object of
\* one key, or a list
TocReplies ==
    { [kind |-> "unreachable", list |-> <<>>], [kind |-> "onekey", list |-> <<>>],
      [kind |-> "list", list |-> Toc_one], [kind |-> "list", list |-> Toc_nested] }

\* create_toc, lines 737-750: no response, or an object of one key
CreateTocExit ==
    /\ pc = "create_toc"
    /\ \E reply \in TocReplies :
         /\ reply.kind \in {"unreachable", "onekey"}
         /\ toc_reply' = reply.kind
    /\ DisplayExit
    /\ pc' = "exit"
    /\ UNCHANGED <<manifestVars, tocVars, book_chapters, chapterVars, css, images>>
    /\ UNCHANGED <<state_status, assetVars, poolVars, opfVars, linkVars>>
    /\ UNCHANGED <<docs, log_deleted, args_log, docs0, failed0>>

\* create_toc, lines 752-759, and the write of line 772
CreateToc ==
    /\ pc = "create_toc"
    /\ \E reply \in TocReplies :
         /\ reply.kind = "list"
         /\ toc_reply' = reply.kind
         /\ toc' = reply.list
         /\ LET res == parse_toc(reply.list, 0, 0)
            IN  /\ navmap' = res.r
                /\ toc_count' = res.c
                /\ max_depth' = res.mx
    /\ tstate' = "returned"
    /\ docs' = {d \in docs : d.name # "OEBPS/toc.ncx"}
                  \cup {[name |-> "OEBPS/toc.ncx", empty |-> FALSE]}
    /\ pc' = "toc_ncx"
    /\ UNCHANGED <<manifestVars, book_chapters, chapterVars, css, images>>
    /\ UNCHANGED <<displayVars, assetVars, poolVars, opfVars, linkVars>>
    /\ UNCHANGED <<log_deleted, exit_status, args_log, docs0, failed0>>

\* create_epub, lines 774-780: the archive; __init__, lines 294-302: the log
\* is removed unless in_error or args.log, sys.exit(0)
Finish ==
    /\ pc = "toc_ncx"
    /\ docs' = docs \cup {[name |-> "epub", empty |-> FALSE]}
    /\ log_deleted' = (~in_error /\ ~args_log)
    /\ exit_status' = 0
    /\ pc' = "done"
    /\ UNCHANGED <<manifestVars, tocVars, book_chapters, chapterVars, css, images>>
    /\ UNCHANGED <<displayVars, assetVars, poolVars, opfVars, linkVars>>
    /\ UNCHANGED <<toc_reply, args_log, docs0, failed0>>

RunRecords == {[filename |-> F_cover, title |-> "Cover"], [filename |-> F_ch1, title |-> "One"]}

RunPageResponses == BadResponses \cup {[kind |-> "page", results |-> <<r>>] : r \in RunRecords}

RunPageChains == [{1} -> RunPageResponses] \cup [{1, 2} -> RunPageResponses]

\* The documents create_epub writes: lines 762, 770-772 and 778
PackageDocs == {"mimetype", "META-INF/container.xml", "OEBPS/content.opf",
                "OEBPS/toc.ncx", "epub"}

\* The documents the service may answer with to the chapter requests of a run
RunServices == [{F_cover, F_ch1} -> ChapterDocs]

\* What an earlier run may have left in the book directory: nothing, what a
\* run stopped in the chapter phase leaves, what a finished run leaves
RunDisks ==
    { [oebps |-> {}, styles |-> {}, images |-> {}, assets |-> FALSE, docs |-> {}],
      [oebps |-> {XhtmlName(F_cover)}, styles |-> {}, images |-> {}, assets |-> FALSE,
       docs |-> {}],
      [oebps |-> {XhtmlName(F_cover)}, styles |-> {<<"Style", 0>>, <<"Style", 1>>},
       images |-> {Last(Split(L_cover, "/"))}, assets |-> TRUE, docs |-> PackageDocs] }

InitRun ==
    /\ pages \in RunPageChains
    /\ mstate = "call"
    /\ page_requests = 0
    /\ book_chapters = <<>>
    /\ book_chapters0 = <<>>
    /\ pc = "idle"
    /\ chapters_queue = <<>>
    /\ \E d \in RunDisks :
         /\ oebps = d.oebps
         /\ dirs = [k \in Kinds |-> d.assets]
         /\ files = [css |-> d.styles, images |-> d.images]
         /\ docs0 = d.docs
    /\ failed0 = {}
    /\ oebps0 = oebps
    /\ service \in RunServices
    /\ page_links = <<>>
    /\ fetched = <<>>
    /\ css = <<>>
    /\ images = <<>>
    /\ book_ad_info = 0
    /\ book_notices = 0
    /\ state_status = 0
    /\ in_error = FALSE
    /\ written = [k \in Kinds |-> {}]
    /\ ad_info = [k \in Kinds |-> 0]
    /\ notices = [k \in Kinds |-> 0]
    /\ error_log = {}
    /\ batch_lo = 0
    /\ wst = <<>>
    /\ wp = <<>>
    /\ qsize = 0
    /\ unreachable \in {{}, {css_url(H_proto)}}
    /\ OpfIdle
    /\ LinkIdle
    /\ docs = {}
    /\ log_deleted = FALSE
    /\ exit_status = -1
    /\ toc_reply = "none"
    /\ args_log \in BOOLEAN
    /\ TocIdle

NextRun ==
    \/ GetBookChaptersReturn
    \/ GetBookChaptersExit
    \/ StartChapterPhase
    \/ GetReturn
    \/ GetSkip
    \/ GetFetch
    \/ GetFatal
    \/ CollectCss
    \/ CollectImages
    \/ PoolStart
    \/ PoolJoin
    \/ PoolReturn
    \/ Check
    \/ Skip
    \/ Notice
    \/ Download
    \/ DownloadFails
    \/ StateRead
    \/ StateWrite
    \/ CreateContentOpf
    \/ OpenTocNcx
    \/ CreateTocExit
    \/ CreateToc
    \/ Finish

SpecRun == InitRun /\ [][NextRun]_vars

----------------------------------------------------------------------------
(* The fatal errors of the chapter phase and of the assembly *)

ChapterFatal == pc = "exit" /\ toc_reply = "none"
TocFatal == pc = "exit" /\ toc_reply # "none"

Written(name) == [name |-> name, empty |-> FALSE] \in docs

\* C20: a fatal error of the chapter phase or of create_toc ends the run
\* with a status that is not 0 and the log is kept; after a fatal error of
\* the chapter phase no worker was started and no package document exists,
\* after one of create_toc toc.ncx is not written and there is no archive;
\* and from the state of the exit on no chapter is fetched, no worker is
\* started, no document is written and the log is not removed.
C20_FatalEndsRun ==
    /\ [](/\ pc = "exit" => exit_status = ExitCode
          /\ exit_status = ExitCode =>
               /\ ExitCode # 0
               /\ in_error
               /\ ~log_deleted
               /\ ~Written("epub")
               /\ ~Written("OEBPS/toc.ncx")
          /\ ChapterFatal => wst = <<>> /\ docs = {}
          /\ ChapterFatal => written = [k \in Kinds |-> {}])
    /\ [][exit_status = ExitCode =>
            UNCHANGED <<fetched, chapters_queue, wst, written, docs, log_deleted, exit_status>>]_vars

\* the first chapter of two cannot be fetched: the second stays in the queue
C20_Witness ==
    /\ ChapterFatal
    /\ Len(book_chapters0) = 2
    /\ Len(fetched) = 1
    /\ Len(chapters_queue) = 1
    /\ exit_status = 128

\* create_toc gets the object of one key: content.opf is written, toc.ncx
\* is empty
C20_TocWitness ==
    /\ TocFatal
    /\ toc_reply = "onekey"
    /\ Written("OEBPS/content.opf")
    /\ [name |-> "OEBPS/toc.ncx", empty |-> TRUE] \in docs

----------------------------------------------------------------------------
(* The spine *)

\* C21: the spine has one itemref per record of the chapter list, in the
\* order of the list, and the idref is the id of the manifest item made for
\* that record, whose href is the record's .xhtml file.
C21_SpineFollowsChapters ==
    pc = "content_opf" =>
        /\ Len(spine) = Len(book_chapters0)
        /\ \A i \in 1..Len(book_chapters0) :
             /\ ChapterItem(i).href = XhtmlName(book_chapters0[i].filename)
             /\ ChapterItem(i).id = item_id(ChapterItem(i).href)
             /\ spine[i] = ChapterItem(i).id

\* two chapters whose ids differ
C21_Witness ==
    /\ pc = "content_opf"
    /\ Len(spine) = 2
    /\ spine[1] # spine[2]
    /\ book_chapters0[1].filename = F_ch1
    /\ book_chapters0[2].filename = F_cover

----------------------------------------------------------------------------
(* The files of an earlier run *)

\* The names of the package documents this run has opened for writing
OpenedForWriting == {d.name : d \in docs}

\* C22: a run on a book directory that an earlier run left never opens for
\* writing a package document that was there when it started, the archive
\* excepted, and removes no chapter file that was there.
C22_EarlierFilesKept ==
    /\ OpenedForWriting \cap docs0 \subseteq {"epub"}
    /\ oebps0 \subseteq oebps

----------------------------------------------------------------------------
(* The order of the phases *)

\* Every chapter of the manifest has been processed: its file is in OEBPS
\* and the queue of the chapter phase is empty
ChaptersProcessed ==
    /\ chapters_queue = <<>>
    /\ book_chapters # <<>>
    /\ \A i \in 1..Len(book_chapters) : XhtmlName(book_chapters[i].filename) \in oebps

\* C23: while a worker of an asset phase is started and not joined every
\* chapter has been processed and the run is inside collect_css or
\* collect_images; a step of the chapter phase leaves self.css and
\* self.images as they were or with entries appended at the end; and no step
\* taken while a worker is started and not joined, nor the step that starts
\* workers, changes self.css or self.images.
C23_PhasesInSequence ==
    /\ [](InFlight # {} => ChaptersProcessed /\ pc \in PoolPcs)
    /\ [][ /\ pc = "get" => IsPrefix(css, css') /\ IsPrefix(images, images')
           /\ (InFlight # {} \/ InFlight' # {}) => css' = css /\ images' = images ]_vars

C23_Witness ==
    /\ pc = "images_pool"
    /\ InFlight # {}
    /\ Len(fetched) = 2
    /\ Len(css) >= 2
    /\ Len(images) >= 2

----------------------------------------------------------------------------
(* A run resumed after a fatal error of the chapter phase *)

\* get over the chapter list chs in a book directory whose chapter files are
\* st.disk (lines 542-565), with the service's documents: st is
\* [css, images, disk]
RECURSIVE ChapterPhase(_, _)
ChapterPhase(st, chs) ==
    IF chs = <<>> THEN st
    ELSE LET next_chapter == Head(chs)
         IN  IF TargetFile(next_chapter.filename) \in st.disk
             THEN ChapterPhase(st, Tail(chs))
             ELSE LET doc == service[next_chapter.filename]
                  IN  ChapterPhase(
                        [css |-> StylesheetLoop([css |-> st.css, count |-> 0, links |-> <<>>],
                                                doc.stylesheets).css,
                         images |-> ImagesAfterRewrite(st.images, doc.links),
                         disk |-> st.disk \cup {SavedFile(next_chapter.filename)}],
                        Tail(chs))

\* What the chapter phase of one run on a new book directory discovers
Uninterrupted == ChapterPhase([css |-> <<>>, images |-> <<>>, disk |-> {}], book_chapters0)

\* The files its asset phases make (lines 568 and 592), and its self.cover
UninterruptedStyles == {<<"Style", i - 1>> : i \in 1..Len(Uninterrupted.css)}
UninterruptedImages ==
    {Last(Split(Uninterrupted.images[i], "/")) : i \in 1..Len(Uninterrupted.images)}
UninterruptedCover ==
    IF Len(Uninterrupted.images) > 0 THEN Uninterrupted.images[1] ELSE <<>>

\* The outcome of the run is that of one run on a new book directory
SameAsUninterrupted ==
    /\ files["css"] = UninterruptedStyles
    /\ files["images"] = UninterruptedImages
    /\ cover = UninterruptedCover
    /\ Cardinality(StyleItems) = Len(Uninterrupted.css)
    /\ {manifest[i].href : i \in ImageItems} = {IMAGES_SLASH \o f : f \in UninterruptedImages}

\* The book directory is what a run that ended with a fatal error in the
\* chapter phase left: the files of the first n chapters, n >= 1, the
\* file of chapter n + 1 missing, no asset and no package document
ResumedAfterChapterFatal ==
    /\ docs0 = {}
    /\ \E n \in 1..(Len(book_chapters0) - 1) :
         /\ oebps0 = {XhtmlName(book_chapters0[i].filename) : i \in 1..n}
         /\ XhtmlName(book_chapters0[n + 1].filename) \notin oebps0

\* A run on a new book directory that reaches its end has the outcome the
\* operators above compute
FreshRunIsUninterrupted ==
    pc = "done" /\ oebps0 = {} /\ docs0 = {} => SameAsUninterrupted

\* C24: a run on the book directory that a run stopped by a fatal error in
\* the chapter phase left, when it reaches its end, has the stylesheet
\* files, the image files, the manifest items of both and the cover
\* reference of one uninterrupted run on a new directory with the same
\* manifest and the same documents from the service.
C24_ResumeSameAsUninterrupted ==
    pc = "done" /\ ResumedAfterChapterFatal => SameAsUninterrupted

----------------------------------------------------------------------------
(* The files of the workers of one batch *)

\* Worker k has found its file absent and is about to open it for writing
AboutToWrite(k) == wst[k] = "download"

\* C25: no two workers that are started and not joined are both about to
\* write the same file: the entries of a batch have different local file
\* names.
C25_BatchWritesDistinctFiles ==
    pc \in PoolPcs =>
        \A j, k \in InFlight :
            j # k /\ AboutToWrite(j) /\ AboutToWrite(k) =>
                LocalName(Kind, FullQueue[j]) # LocalName(Kind, FullQueue[k])

----------------------------------------------------------------------------
(* The chapter files and the fatal errors *)

\* The chapter files save_page_html has written in this run
SavedInThisRun == {page_links[i].file : i \in 1..Len(page_links)}

\* C26: the chapter files made by the run are those of the chapters whose
\* get_html and parse_html returned and that save_page_html wrote; when the
\* chapter phase ends the run with Display.exit the file of the chapter it
\* was fetching is not in OEBPS, so the test of line 549 of a later run
\* finds it absent.
C26_FileOnlyAfterCompletion ==
    /\ oebps = oebps0 \cup SavedInThisRun
    /\ pc = "exit" /\ fetched # <<>> =>
         /\ Len(page_links) = Len(fetched) - 1
         /\ TargetFile(Last(fetched)) \notin oebps

C26_Witness ==
    /\ pc = "exit"
    /\ Len(fetched) = 2
    /\ Len(page_links) = 1
    /\ page_links[1].file \in oebps
    /\ TargetFile(fetched[2]) \notin oebps

----------------------------------------------------------------------------
(* A later run on the same book directory *)

\* The first run on a new book directory, as collect_css is called
InitRerun ==
    /\ InitAssets
    /\ dirs = [k \in Kinds |-> FALSE]

\* The run goes to its end and the program is run again on the same book
\* directory (lines 238-286 of the new process), up to its call of
\* collect_css: Display and the lists are new, the files stay.  The chapter
\* phase of the new run has fetched every chapter again and found the same
\* assets (the chapter files were removed, as the advisory of lines 552-557
\* asks), or has found every chapter file and no asset.
RunAgain ==
    /\ pc = "create_epub"
    /\ pc' = "collect_css"
    /\ css' \in {css, <<>>}
    /\ images' \in {images, <<>>}
    /\ failed0' = failed0 \cup error_log
    /\ error_log' = {}
    /\ written' = [k \in Kinds |-> {}]
    /\ ad_info' = [k \in Kinds |-> 0]
    /\ notices' = [k \in Kinds |-> 0]
    /\ state_status' = 100
    /\ in_error' = FALSE
    /\ batch_lo' = 0
    /\ wst' = <<>>
    /\ wp' = <<>>
    /\ qsize' = 0
    /\ UNCHANGED <<dirs, files, unreachable>>
    /\ UNCHANGED <<manifestVars, tocVars, book_chapters, chapterVars, opfVars, linkVars>>
    /\ UNCHANGED <<docs, log_deleted, exit_status, toc_reply, args_log, docs0>>

NextRerun ==
    \/ CollectCss
    \/ CollectImages
    \/ PoolStart
    \/ PoolJoin
    \/ PoolReturn
    \/ Check
    \/ Skip
    \/ Notice
    \/ Download
    \/ DownloadFails
    \/ StateRead
    \/ StateWrite
    \/ RunAgain

SpecRerun == InitRerun /\ [][NextRerun]_vars

----------------------------------------------------------------------------
(* The cover meta element *)

\* The ids of the image items of the manifest
ImageItemIds == {manifest[i].id : i \in ImageItems}

\* C28: in the content.opf written, the content of the cover meta element
\* is the id of one of the image items of the manifest.
C28_CoverIsImageItemId ==
    pc = "content_opf" => cover_id \in ImageItemIds

====
